---- MODULE Spec2Model ----
(***************************************************************************)
(* Model of ysf.py, the encoder of the YSF photo log.                      *)
(*                                                                         *)
(* Text is a sequence of character codes and a byte string a sequence of   *)
(* numbers in 0..255.  An exception is a value: every operation that can   *)
(* raise returns a record whose field exc names the exception ("none"      *)
(* when it returns normally).                                              *)
(*                                                                         *)
(* Spec   is main(): one run of the batch driver and of the directory      *)
(*        writer, with the failures of the file system as choices.         *)
(* SpecFn applies the codecs and the metadata extractor to inputs drawn    *)
(*        from bounded sets.                                               *)
(***************************************************************************)
EXTENDS Integers, Sequences, FiniteSets, TLC

VARIABLES
  callsign,   \* main's parameter callsign
  radioid,    \* main's parameter radioid
  file_name,  \* main's parameter file_name: None or a photo
  dir_name,   \* main's local dir_name: None or the listing of the directory
  clock,      \* what datetime.now() returns during the run
  pc,         \* the position of main
  idx,        \* the number of directory entries the loop of main has taken
  pic_count,  \* main's local pic_count
  bs,         \* the bytes of the BytesIO stream bs
  fs,         \* the output tree under outdir
  log,        \* history: one entry per call of write_log
  fn,         \* SpecFn: the function applied last
  arg,        \* SpecFn: its arguments
  ret         \* SpecFn: what it returned or raised

vars == <<callsign, radioid, file_name, dir_name, clock, pc, idx, pic_count,
          bs, fs, log, fn, arg, ret>>

mainvars == <<callsign, radioid, file_name, dir_name, clock, pc, idx,
              pic_count, bs, fs, log>>

fnvars == <<fn, arg, ret>>

\* None is the empty option and Some(x) the option holding x
None == <<>>

Some(x) == <<x>>

--------------------------------------------------------------------------
(* Bounds of the model *)

MaxDirEntries == 3
MaxRadioIdLen == 7
MaxSeq == 12
MaxVal == 250

--------------------------------------------------------------------------
(* Python's string and integer formatting *)

Min(a, b) == IF a < b THEN a ELSE b

Spaces(n) == [i \in 1..n |-> 32]

\* str.ljust(width): pad with spaces on the right, never truncate
ljust(s, width) == IF Len(s) >= width THEN s ELSE s \o Spaces(width - Len(s))

\* '{:W.P}'.format(s): truncate to P characters, then pad to W
FormatStr(s, width, precision) ==
  ljust(SubSeq(s, 1, Min(precision, Len(s))), width)

RECURSIVE DecDigits(_)
\* str(n) for n >= 0
DecDigits(n) ==
  IF n < 10 THEN <<48 + n>> ELSE Append(DecDigits(n \div 10), 48 + (n % 10))

\* '{:0Wd}'.format(n) for n >= 0: zero-padded to at least W digits
FormatInt(n, width) ==
  LET d == DecDigits(n)
  IN  IF Len(d) >= width THEN d ELSE [i \in 1..(width - Len(d)) |-> 48] \o d

RECURSIVE Pow256(_)
Pow256(k) == IF k = 0 THEN 1 ELSE 256 * Pow256(k - 1)

\* n.to_bytes(length, byteorder='big', signed=False) raises OverflowError
\* when n does not fit
Overflows(n, length) == n < 0 \/ n \div Pow256(length - 1) >= 256

to_bytes(n, length) ==
  [i \in 1..length |-> (n \div Pow256(length - i)) % 256]

\* bytes(s, 'ASCII') raises UnicodeEncodeError on a character above 127
IsAscii(s) == \A i \in 1..Len(s) : s[i] < 128

AsciiBytes(s) == [i \in 1..Len(s) |-> s[i] % 256]

--------------------------------------------------------------------------
(* datetime *)

IsLeap(y) == (y % 4 = 0 /\ y % 100 # 0) \/ y % 400 = 0

DaysInMonth(y, m) ==
  IF m = 2 THEN (IF IsLeap(y) THEN 29 ELSE 28)
  ELSE IF m \in {4, 6, 9, 11} THEN 30 ELSE 31

\* when - timedelta(hours=1), when = <<year, month, day, hour, minute, second>>
MinusOneHour(t) ==
  IF t[4] > 0 THEN [t EXCEPT ![4] = t[4] - 1]
  ELSE IF t[3] > 1 THEN [t EXCEPT ![3] = t[3] - 1, ![4] = 23]
  ELSE IF t[2] > 1
       THEN [t EXCEPT ![2] = t[2] - 1, ![3] = DaysInMonth(t[1], t[2] - 1), ![4] = 23]
  ELSE [t EXCEPT ![1] = t[1] - 1, ![2] = 12, ![3] = 31, ![4] = 23]

RECURSIVE DecValue(_)
DecValue(s) ==
  IF Len(s) = 0 THEN 0
  ELSE 10 * DecValue(SubSeq(s, 1, Len(s) - 1)) + (s[Len(s)] - 48)

\* The positions of the separators of 'YYYY:MM:DD HH:MM:SS' in s
SepPositions(s) == {i \in 1..Len(s) : s[i] \notin 48..57}

\* datetime.strptime(s, '%Y:%m:%d %H:%M:%S'): a 4-digit year, then fields of
\* one or two digits between the separators ':' ':' ' ' ':' ':'; ValueError
\* when s has another shape or names no date
strptime(s) ==
  LET seps == SepPositions(s)
      p == [k \in 1..5 |->
              CHOOSE i \in seps : Cardinality({j \in seps : j < i}) = k - 1]
      field(k) == IF k = 1 THEN SubSeq(s, 1, p[1] - 1)
                  ELSE IF k = 6 THEN SubSeq(s, p[5] + 1, Len(s))
                  ELSE SubSeq(s, p[k - 1] + 1, p[k] - 1)
      v == [k \in 1..6 |-> DecValue(field(k))]
      shaped == /\ Cardinality(seps) = 5
                /\ <<s[p[1]], s[p[2]], s[p[3]], s[p[4]], s[p[5]]>>
                     = <<58, 58, 32, 58, 58>>
                /\ Len(field(1)) = 4
                /\ \A k \in 2..6 : Len(field(k)) \in {1, 2}
      dated == /\ v[1] >= 1
               /\ v[2] \in 1..12
               /\ v[3] \in 1..DaysInMonth(v[1], v[2])
               /\ v[4] \in 0..23
               /\ v[5] \in 0..59
               /\ v[6] \in 0..59
  IN  IF shaped /\ dated THEN [exc |-> "none", val |-> v]
      ELSE [exc |-> "ValueError", val |-> None]

--------------------------------------------------------------------------
(* EXIF metadata: exif is a function from tag numbers to values, the empty *)
(* function when the image has none.  exif[GPSInfo] is a function from GPS *)
(* key numbers to values; a coordinate is <<degrees, minutes, s100>> with  *)
(* s100 the seconds in hundredths.                                         *)

DateTimeOriginal == 36867
GPSInfo == 34853

\* Metadata that holds the orientation tag (274) only
OtherTags == (274 :> <<1>>)

\* PIL.ExifTags.GPSTAGS, the keys the encoder reads and two it does not
GPSTAGS ==
  (1 :> "GPSLatitudeRef") @@ (2 :> "GPSLatitude") @@ (3 :> "GPSLongitudeRef")
  @@ (4 :> "GPSLongitude") @@ (5 :> "GPSAltitudeRef") @@ (6 :> "GPSAltitude")

NoExif == <<>>

get_geotagging(exif) ==
  IF DOMAIN exif = {} THEN [exc |-> "ValueError", val |-> None]
  ELSE IF GPSInfo \notin DOMAIN exif THEN [exc |-> "ValueError", val |-> None]
  ELSE LET present == {key \in DOMAIN GPSTAGS : key \in DOMAIN exif[GPSInfo]}
           names == {GPSTAGS[key] : key \in present}
       IN  [exc |-> "none",
            val |-> [n \in names |->
                       exif[GPSInfo][CHOOSE key \in present : GPSTAGS[key] = n]]]

\* Mutant of blank_gps: the literal is one space short
blank_gps_short == Spaces(19)

blank_gps == Spaces(20)

encodegps(exif) ==
  IF DOMAIN exif # {}
  THEN LET g == get_geotagging(exif)
           geotags == g.val
       IN  IF g.exc = "ValueError" THEN [exc |-> "none", val |-> blank_gps]
           ELSE IF \E k \in {"GPSLatitude", "GPSLongitude", "GPSLatitudeRef",
                             "GPSLongitudeRef"} : k \notin DOMAIN geotags
                THEN [exc |-> "none", val |-> blank_gps]
           ELSE [exc |-> "none",
                 val |-> FormatStr(geotags["GPSLatitudeRef"], 1, 1)
                         \o FormatInt(geotags["GPSLatitude"][1], 3)
                         \o FormatInt(geotags["GPSLatitude"][2], 2)
                         \o FormatInt(geotags["GPSLatitude"][3], 4)
                         \o FormatStr(geotags["GPSLongitudeRef"], 1, 1)
                         \o FormatInt(geotags["GPSLongitude"][1], 3)
                         \o FormatInt(geotags["GPSLongitude"][2], 2)
                         \o FormatInt(geotags["GPSLongitude"][3], 4)]
  ELSE [exc |-> "none", val |-> blank_gps]

get_date_taken(exif, now) ==
  IF DOMAIN exif # {}
  THEN IF DateTimeOriginal \notin DOMAIN exif
       THEN [exc |-> "none", val |-> now]
       ELSE strptime(exif[DateTimeOriginal])
  ELSE [exc |-> "none", val |-> now]

--------------------------------------------------------------------------
(* The codecs *)

\* Mutant of dec2hex: the tens digit is weighted 10, not 16
dec2hex_decimal(val) ==
  LET v == val % 100
  IN  (v % 10) + 10 * (v \div 10)

dec2hex(val) ==
  LET v == val % 100
  IN  (v % 10) + 16 * (v \div 10)

\* The stream after writedate(binary_stream, when)
writedate(binary_stream, when) ==
  binary_stream \o [z \in 1..6 |-> to_bytes(dec2hex(when[z]), 1)[1]]

picfilename(radio_id, seq_num) ==
  <<72>> \o FormatStr(radio_id, 0, 5) \o FormatInt(seq_num, 6)
  \o <<46, 106, 112, 103>>

\* os.path.getsize(filename).to_bytes(4, ...)
getfilesize(size) ==
  IF Overflows(size, 4) THEN [exc |-> "OverflowError", val |-> None]
  ELSE [exc |-> "none", val |-> to_bytes(size, 4)]

--------------------------------------------------------------------------
(* write_log.  A photo is [name, exif, fail, size]: the base name of the   *)
(* file, its metadata, the step at which processing it fails ("none",      *)
(* "open" in Image.open, "thumbnail" in image.thumbnail, "save" in         *)
(* image.save, "getsize" in os.path.getsize; each an IOError) and the size *)
(* of its thumbnail.  A failing image.save leaves the file it opened,      *)
(* empty.                                                                  *)

Raised(stream, tree, exc) == [bs |-> stream, fs |-> tree, exc |-> exc]

\* Lines 215-218: head, node id, destination, 6 spaces
RecordHead == <<0, 0, 0, 0>> \o Spaces(5) \o ljust(<<65, 76, 76>>, 10) \o Spaces(6)

\* Line 219: the radio id as given
RadioIdField(radio_id) == AsciiBytes(radio_id)

\* Line 220
CallSignField(call_sign) == AsciiBytes(ljust(call_sign, 16))

\* Lines 225-227
DescriptionField(name) == AsciiBytes(FormatStr(name, 11, 11))

write_log(binary_stream, picfile, call_sign, radio_id, tree, picnum, now) ==
  LET s1 == binary_stream \o RecordHead
      s2 == s1 \o RadioIdField(radio_id)
      s3 == writedate(writedate(s2 \o CallSignField(call_sign),
                                MinusOneHour(now)), now)
      taken == get_date_taken(picfile.exif, now)
      s4 == writedate(s3, taken.val)
      s5 == s4 \o DescriptionField(picfile.name) \o Spaces(5)
      outname == picfilename(radio_id, picnum)
      t1 == [tree EXCEPT !.PHOTO = TRUE]
      t2 == [t1 EXCEPT !.thumbs = (outname :> 0) @@ @]
      t3 == [t1 EXCEPT !.thumbs = (outname :> picfile.size) @@ @]
      size == getfilesize(picfile.size)
      gps == encodegps(picfile.exif)
  IN  IF picfile.fail = "open" THEN Raised(binary_stream, tree, "IOError")
      ELSE IF ~IsAscii(radio_id) THEN Raised(s1, tree, "UnicodeEncodeError")
      ELSE IF ~IsAscii(call_sign) THEN Raised(s2, tree, "UnicodeEncodeError")
      ELSE IF taken.exc # "none" THEN Raised(s3, tree, taken.exc)
      ELSE IF ~IsAscii(picfile.name) THEN Raised(s4, tree, "UnicodeEncodeError")
      ELSE IF picfile.fail = "thumbnail" THEN Raised(s5, t1, "IOError")
      ELSE IF picfile.fail = "save" THEN Raised(s5, t2, "IOError")
      ELSE IF picfile.fail = "getsize" THEN Raised(s5, t3, "IOError")
      ELSE IF size.exc # "none" THEN Raised(s5, t3, size.exc)
      ELSE IF gps.exc # "none" THEN Raised(s5 \o size.val \o AsciiBytes(outname), t3, gps.exc)
      ELSE Raised(s5 \o size.val \o AsciiBytes(outname) \o AsciiBytes(gps.val)
                     \o Spaces(8), t3, "none")

--------------------------------------------------------------------------
(* write_fat, write_mng: the bytes written, or the exception of to_bytes *)

RECURSIVE FatEntries(_)
FatEntries(n) ==
  IF n = 0 THEN <<>>
  ELSE FatEntries(n - 1) \o <<64>> \o to_bytes(128 * (n - 1), 3)

write_fat(count) ==
  IF count > 0 /\ Overflows(128 * (count - 1), 3)
  THEN [exc |-> "OverflowError", val |-> FatEntries(Pow256(3) \div 128) \o <<64>>]
  ELSE [exc |-> "none", val |-> FatEntries(count)]

write_mng(msg_count, count, grp_count) ==
  IF Overflows(msg_count, 2) \/ Overflows(count, 2) \/ Overflows(grp_count, 2)
  THEN [exc |-> "OverflowError", val |-> <<>>]
  ELSE [exc |-> "none",
        val |-> to_bytes(msg_count, 2) \o [i \in 1..14 |-> 255]
                \o to_bytes(count, 2) \o to_bytes(grp_count, 2)
                \o [i \in 1..12 |-> 255]]

--------------------------------------------------------------------------
(* The inputs of a run *)

\* "123456789012..." cut to n characters
RadioIdOfLen(n) == [i \in 1..n |-> 48 + (i % 10)]

RadioIds == {RadioIdOfLen(n) : n \in {2, 5, MaxRadioIdLen}}

\* "M0ABC" and a call sign of 17 characters
CallSigns == {<<77, 48, 65, 66, 67>>, [i \in 1..17 |-> 64 + i]}

Clocks == {<<2026, 1, 1, 0, 30, 5>>}

\* "2023:07:04 12:34:56"
GoodDate ==
  <<50, 48, 50, 51, 58, 48, 55, 58, 48, 52, 32, 49, 50, 58, 51, 52, 58, 53, 54>>

\* "0000:00:00 00:00:00", what a camera with an unset clock stores
ZeroDate ==
  <<48, 48, 48, 48, 58, 48, 48, 58, 48, 48, 32, 48, 48, 58, 48, 48, 58, 48, 48>>

\* GPSLatitudeRef "N", GPSLatitude (40, 26, 46.3), GPSLongitudeRef "W",
\* GPSLongitude (79, 58, 55.1), GPSAltitudeRef 0
FullGps ==
  (1 :> <<78>>) @@ (2 :> <<40, 26, 4630>>) @@ (3 :> <<87>>)
  @@ (4 :> <<79, 58, 5510>>) @@ (5 :> <<0>>)

Photo(name, exif, fail, size) ==
  [name |-> name, exif |-> exif, fail |-> fail, size |-> size]

\* File names "a.jpg" .. "h.jpg" and "holiday_2023.jpg"
ShortName(c) == <<c, 46, 106, 112, 103>>

LongName ==
  <<104, 111, 108, 105, 100, 97, 121, 95, 50, 48, 50, 51, 46, 106, 112, 103>>

Photos ==
  { Photo(ShortName(97), NoExif, "none", 9000),
    Photo(LongName, (DateTimeOriginal :> GoodDate) @@ (GPSInfo :> FullGps),
          "none", 70000),
    Photo(ShortName(99),
          OtherTags @@ (GPSInfo :> [k \in {1, 2} |-> FullGps[k]]),
          "none", 300),
    Photo(ShortName(100), (DateTimeOriginal :> ZeroDate), "none", 300),
    Photo(ShortName(101), NoExif, "open", 0),
    Photo(ShortName(102), NoExif, "thumbnail", 0),
    Photo(ShortName(103), (DateTimeOriginal :> GoodDate), "save", 0),
    Photo(ShortName(104), NoExif, "getsize", 4000) }

RECURSIVE Listings(_)
\* os.listdir: the entries of a directory, each once, in any order
Listings(n) ==
  IF n = 0 THEN {<<>>}
  ELSE LET shorter == Listings(n - 1)
       IN  shorter \cup
           {Append(l, p) : <<l, p>> \in
              {x \in shorter \X Photos :
                 /\ Len(x[1]) = n - 1
                 /\ \A i \in 1..Len(x[1]) : x[1][i] # x[2]}}

\* SpecFn: no argument and no result yet
NoArg ==
  [val |-> 0, stream |-> <<>>, when |-> <<>>, radio_id |-> <<>>, seq_num |-> 0,
   exif |-> <<>>, now |-> <<>>]

NoRet == [exc |-> "none", num |-> 0, val |-> <<>>]

EmptyTree == [PHOTO |-> FALSE, thumbs |-> <<>>, QSOLOG |-> FALSE, files |-> <<>>]

--------------------------------------------------------------------------
(* main *)

\* Lines 330-340.  main binds dir_name to None; the usage text names the
\* directory of a batch (-d) and lines 345-352 convert it, so dir_name ranges
\* over None and the listings of a directory.  The usage text gives -d or -f,
\* not both.
Init ==
  /\ callsign \in CallSigns
  /\ radioid \in RadioIds
  /\ clock \in Clocks
  /\ file_name \in {None} \cup {Some(p) : p \in Photos}
  /\ dir_name \in {None} \cup {Some(l) : l \in Listings(MaxDirEntries)}
  /\ file_name = None \/ dir_name = None
  /\ pc = "file"
  /\ idx = 0
  /\ pic_count = 0
  /\ bs = <<>>
  /\ fs = EmptyTree
  /\ log = <<>>
  /\ fn = "none"
  /\ arg = NoArg
  /\ ret = NoRet

\* The history entry of one call of write_log
Entry(picfile, picnum, before, r) ==
  [name |-> picfile.name, exif |-> picfile.exif, picnum |-> picnum,
   exc |-> r.exc, from |-> Len(before), to |-> Len(r.bs)]

\* Mutant of CountAfter: the counter moves whether or not write_log returned
CountAfter_always(count, exc) == count + 1

\* Lines 342-343 and 349-350: pic_count += 1 runs when write_log returned
CountAfter(count, exc) == IF exc = "none" THEN count + 1 ELSE count

\* Line 351: except IOError
Caught(exc) == exc = "IOError"

\* Mutant of HasPictures: the files are written for an empty batch too
HasPictures_always(count) == count >= 0

\* Line 354
HasPictures(count) == count > 0

\* Lines 341-343
ConvertFile ==
  /\ pc = "file"
  /\ file_name # None
  /\ LET r == write_log(bs, file_name[1], callsign, radioid, fs,
                        pic_count + 1, clock)
     IN  /\ bs' = r.bs
         /\ fs' = r.fs
         /\ log' = Append(log, Entry(file_name[1], pic_count + 1, bs, r))
         /\ pic_count' = CountAfter(pic_count, r.exc)
         /\ pc' = IF r.exc = "none" THEN "dir" ELSE "aborted"
  /\ UNCHANGED <<callsign, radioid, file_name, dir_name, clock, idx>>
  /\ UNCHANGED fnvars

\* Line 341, file_name not given
NoFile ==
  /\ pc = "file"
  /\ file_name = None
  /\ pc' = "dir"
  /\ UNCHANGED <<callsign, radioid, file_name, dir_name, clock, idx,
                 pic_count, bs, fs, log>>
  /\ UNCHANGED fnvars

\* Lines 346-352: one iteration of the loop over the directory
ConvertNext ==
  /\ pc = "dir"
  /\ dir_name # None
  /\ idx < Len(dir_name[1])
  /\ LET picfile == dir_name[1][idx + 1]
         r == write_log(bs, picfile, callsign, radioid, fs, pic_count + 1, clock)
     IN  /\ bs' = r.bs
         /\ fs' = r.fs
         /\ log' = Append(log, Entry(picfile, pic_count + 1, bs, r))
         /\ pic_count' = CountAfter(pic_count, r.exc)
         /\ pc' = IF r.exc = "none" \/ Caught(r.exc) THEN "dir" ELSE "aborted"
  /\ idx' = idx + 1
  /\ UNCHANGED <<callsign, radioid, file_name, dir_name, clock>>
  /\ UNCHANGED fnvars

\* Lines 345-354: the inputs are exhausted
EndOfInputs ==
  /\ pc = "dir"
  /\ IF dir_name = None THEN TRUE ELSE idx = Len(dir_name[1])
  /\ pc' = IF HasPictures(pic_count) THEN "makedirs" ELSE "done"
  /\ UNCHANGED <<callsign, radioid, file_name, dir_name, clock, idx,
                 pic_count, bs, fs, log>>
  /\ UNCHANGED fnvars

\* Lines 357-359; os.makedirs may raise OSError
MakeLogDir ==
  /\ pc = "makedirs"
  /\ \E io \in {"ok", "OSError"} :
       IF fs.QSOLOG \/ io = "ok"
       THEN fs' = [fs EXCEPT !.QSOLOG = TRUE] /\ pc' = "QSOPCTDIR"
       ELSE fs' = fs /\ pc' = "aborted"
  /\ UNCHANGED <<callsign, radioid, file_name, dir_name, clock, idx,
                 pic_count, bs, log>>
  /\ UNCHANGED fnvars

\* with open(path, 'wb') as f: f.write(data).  open may raise and leave no
\* file; the write may raise and leave the file open created, empty.
WriteFile(tree, name, data, io) ==
  IF io = "open" THEN tree
  ELSE IF io = "write" THEN [tree EXCEPT !.files = (name :> <<>>) @@ @]
  ELSE [tree EXCEPT !.files = (name :> data) @@ @]

\* Lines 360-361
WriteDir ==
  /\ pc = "QSOPCTDIR"
  /\ \E io \in {"ok", "open", "write"} :
       /\ fs' = WriteFile(fs, "QSOPCTDIR.DAT", bs, io)
       /\ pc' = IF io = "ok" THEN "QSOPCTFAT" ELSE "aborted"
  /\ UNCHANGED <<callsign, radioid, file_name, dir_name, clock, idx,
                 pic_count, bs, log>>
  /\ UNCHANGED fnvars

\* Line 363
WriteFat ==
  /\ pc = "QSOPCTFAT"
  /\ \E io \in {"ok", "open", "write"} :
       LET r == write_fat(pic_count)
       IN  /\ fs' = WriteFile(fs, "QSOPCTFAT.DAT", r.val,
                              IF io = "ok" /\ r.exc # "none" THEN "ok" ELSE io)
           /\ pc' = IF io = "ok" /\ r.exc = "none" THEN "QSOMNG" ELSE "aborted"
  /\ UNCHANGED <<callsign, radioid, file_name, dir_name, clock, idx,
                 pic_count, bs, log>>
  /\ UNCHANGED fnvars

\* Line 364
WriteMng ==
  /\ pc = "QSOMNG"
  /\ \E io \in {"ok", "open", "write"} :
       LET r == write_mng(0, pic_count, 0)
       IN  /\ fs' = WriteFile(fs, "QSOMNG.DAT", r.val,
                              IF io = "ok" /\ r.exc # "none" THEN "ok" ELSE io)
           /\ pc' = IF io = "ok" /\ r.exc = "none" THEN "done" ELSE "aborted"
  /\ UNCHANGED <<callsign, radioid, file_name, dir_name, clock, idx,
                 pic_count, bs, log>>
  /\ UNCHANGED fnvars

Next ==
  \/ ConvertFile
  \/ NoFile
  \/ ConvertNext
  \/ EndOfInputs
  \/ MakeLogDir
  \/ WriteDir
  \/ WriteFat
  \/ WriteMng

Spec == Init /\ [][Next]_vars

--------------------------------------------------------------------------
(* SpecFn: the codecs and the metadata extractor applied to inputs drawn   *)
(* from bounded sets                                                       *)

\* "2023-07-04 12:34:56"
DashDate ==
  <<50, 48, 50, 51, 45, 48, 55, 45, 48, 52, 32, 49, 50, 58, 51, 52, 58,
    53, 54>>

\* "2023:02:30 10:00:00"
Feb30Date ==
  <<50, 48, 50, 51, 58, 48, 50, 58, 51, 48, 32, 49, 48, 58, 48, 48, 58,
    48, 48>>

\* "2023:7:4 1:2:3"
ShortDate ==
  <<50, 48, 50, 51, 58, 55, 58, 52, 32, 49, 58, 50, 58, 51>>

\* "    :  :     :  :  "
BlankDate ==
  <<32, 32, 32, 32, 58, 32, 32, 58, 32, 32, 32, 32, 32, 58, 32, 32, 58,
    32, 32>>

\* "2024:02:29 23:59:59"
LeapDate ==
  <<50, 48, 50, 52, 58, 48, 50, 58, 50, 57, 32, 50, 51, 58, 53, 57, 58,
    53, 57>>

DateStrings ==
  {GoodDate, ZeroDate, DashDate, Feb30Date, ShortDate, BlankDate, LeapDate, <<>>}

\* The metadata of an image: with or without an orientation tag, a capture
\* time and a geotag block holding any of the keys 1..5
Exifs ==
  { (IF o THEN OtherTags ELSE <<>>)
    @@ (IF d = None THEN <<>> ELSE (DateTimeOriginal :> d[1]))
    @@ (IF g = None THEN <<>> ELSE (GPSInfo :> [k \in g[1] |-> FullGps[k]])) :
    <<o, d, g>> \in BOOLEAN
                    \X ({None} \cup {Some(x) : x \in {GoodDate, ZeroDate, DashDate}})
                    \X ({None} \cup {Some(x) : x \in SUBSET (1..5)}) }

Whens ==
  {1999, 2000, 2023, 2100, 9999} \X {1, 7, 12} \X {1, 28} \X {0, 23}
  \X {0, 59} \X {0, 7, 59}

InitFn ==
  /\ callsign = <<>>
  /\ radioid = <<>>
  /\ clock = <<>>
  /\ file_name = None
  /\ dir_name = None
  /\ pc = "idle"
  /\ idx = 0
  /\ pic_count = 0
  /\ bs = <<>>
  /\ fs = EmptyTree
  /\ log = <<>>
  /\ fn = "none"
  /\ arg = NoArg
  /\ ret = NoRet

\* One application per behaviour: name is applied to a and gives r
Call(name, a, r) ==
  /\ fn = "none"
  /\ fn' = name
  /\ arg' = a
  /\ ret' = r
  /\ UNCHANGED mainvars

\* A returned number n
Number(n) == [exc |-> "none", num |-> n, val |-> <<>>]

\* A returned or raised r = [exc, val]
Result(r) == [exc |-> r.exc, num |-> 0, val |-> r.val]

CallDec2hex ==
  \E v \in 0..MaxVal :
    Call("dec2hex", [NoArg EXCEPT !.val = v], Number(dec2hex(v)))

CallWritedate ==
  \E b \in {<<>>, <<0, 255>>}, w \in Whens :
    Call("writedate", [NoArg EXCEPT !.stream = b, !.when = w],
         Result([exc |-> "none", val |-> writedate(b, w)]))

CallPicfilename ==
  \E n \in 0..MaxRadioIdLen, k \in 1..MaxSeq :
    Call("picfilename", [NoArg EXCEPT !.radio_id = RadioIdOfLen(n), !.seq_num = k],
         Result([exc |-> "none", val |-> picfilename(RadioIdOfLen(n), k)]))

CallEncodegps ==
  \E e \in Exifs : Call("encodegps", [NoArg EXCEPT !.exif = e], Result(encodegps(e)))

CallGetDateTaken ==
  \E d \in {None} \cup {Some(x) : x \in DateStrings}, o \in BOOLEAN,
     t \in Clocks \cup {<<2024, 3, 1, 0, 0, 0>>} :
    LET e == (IF o THEN OtherTags ELSE <<>>)
             @@ (IF d = None THEN <<>> ELSE (DateTimeOriginal :> d[1]))
    IN  Call("get_date_taken", [NoArg EXCEPT !.exif = e, !.now = t],
             Result(get_date_taken(e, t)))

CallMinusOneHour ==
  \E t \in Whens \cup {<<2024, 3, 1, 0, 0, 0>>, <<2023, 3, 1, 0, 0, 0>>,
                       <<2026, 1, 1, 0, 30, 5>>, <<2026, 5, 1, 0, 0, 0>>} :
    Call("timedelta", [NoArg EXCEPT !.now = t],
         Result([exc |-> "none", val |-> MinusOneHour(t)]))

NextFn ==
  \/ CallDec2hex
  \/ CallWritedate
  \/ CallPicfilename
  \/ CallEncodegps
  \/ CallGetDateTaken
  \/ CallMinusOneHour

SpecFn == InitFn /\ [][NextFn]_vars

--------------------------------------------------------------------------
(* Properties *)

RecordLen == 128

\* The entries of the history whose write_log returned
Succeeded == SelectSeq(log, LAMBDA e : e.exc = "none")

\* The bytes write_log appended during the call of history entry e
Appended(e) == SubSeq(bs, e.from + 1, e.to)

IsDone == pc = "done"

Ended == pc \in {"done", "aborted"}

Exists(name) == name \in DOMAIN fs.files

LogFiles == {"QSOPCTDIR.DAT", "QSOPCTFAT.DAT", "QSOMNG.DAT"}

\* C1: every record write_log appends for a successfully processed photo is
\* exactly 128 bytes long whatever the lengths of the radio id, the call sign
\* and the file name: the radio id field is the radio id truncated or padded
\* to 5 bytes, the call sign field 16 bytes, the description 11 bytes and the
\* thumbnail file name 16 bytes, ending in ".jpg" right before the GPS field.
C1_RecordIs128Bytes ==
  \A i \in 1..Len(log) :
    log[i].exc = "none" =>
      LET rec == Appended(log[i])
      IN  /\ Len(rec) = RecordLen
          /\ SubSeq(rec, 26, 30) = FormatStr(radioid, 5, 5)
          /\ SubSeq(rec, 31, 46) = FormatStr(callsign, 16, 16)
          /\ SubSeq(rec, 65, 75) = FormatStr(log[i].name, 11, 11)
          /\ SubSeq(rec, 85, 85) = <<72>>
          /\ SubSeq(rec, 97, 100) = <<46, 106, 112, 103>>
          /\ SubSeq(rec, 121, 128) = Spaces(8)

\* The value of the 3 bytes after the marker of FAT entry i (from 0)
FatOffset(fat, i) == 65536 * fat[4 * i + 2] + 256 * fat[4 * i + 3] + fat[4 * i + 4]

\* C2: when a run with N successfully processed photos has written its files,
\* QSOPCTDIR.DAT is exactly 128*N bytes, QSOPCTFAT.DAT exactly 4*N bytes, and
\* FAT entry i is the byte 0x40 followed by the 3-byte big-endian 0x80*i,
\* which is where the record of the i-th successful photo starts in
\* QSOPCTDIR.DAT.
C2_DirAndFatSizes ==
  (IsDone /\ Len(Succeeded) > 0) =>
    LET N == Len(Succeeded)
        fat == fs.files["QSOPCTFAT.DAT"]
    IN  /\ Len(fs.files["QSOPCTDIR.DAT"]) = RecordLen * N
        /\ Len(fat) = 4 * N
        /\ \A i \in 0..(N - 1) :
             /\ fat[4 * i + 1] = 64
             /\ FatOffset(fat, i) = 128 * i
             /\ Succeeded[i + 1].from = FatOffset(fat, i)

\* The photo count of QSOMNG.DAT: its bytes 17 and 18, big-endian
MngPhotoCount(mng) == 256 * mng[17] + mng[18]

C4_SequenceNumbers ==
  /\ [](/\ pic_count = Len(Succeeded)
        /\ \A k \in 1..Len(Succeeded) : Succeeded[k].picnum = k
        /\ \A j, k \in 1..Len(Succeeded) :
             j # k => /\ Succeeded[j].picnum # Succeeded[k].picnum
                      /\ picfilename(radioid, Succeeded[j].picnum)
                         # picfilename(radioid, Succeeded[k].picnum))
  /\ [][pic_count' >= pic_count]_vars

\* C4 witness: a success, a failure, then a success that takes number 2
C4_Witness ==
  /\ Len(log) >= 3
  /\ log[1].exc = "none"
  /\ log[2].exc = "IOError"
  /\ log[3].exc = "none"
  /\ log[3].picnum = 2
  /\ pic_count = 2

\* C5: the thumbnail file name is "H", the first 5 characters of the radio
\* id padded with spaces to 5, the sequence number as 6 zero-padded digits
\* and ".jpg": 16 characters.
C5_PicFileName ==
  fn = "picfilename" =>
    /\ ret.val = <<72>> \o FormatStr(arg.radio_id, 5, 5)
             \o [i \in 1..6 |-> 48 + ((arg.seq_num \div (10 ^ (6 - i))) % 10)]
             \o <<46, 106, 112, 103>>
    /\ Len(ret.val) = 16

\* C6: when a run in which a photo succeeded has ended, normally or by an
\* error, the output tree holds all three of QSOPCTDIR.DAT, QSOPCTFAT.DAT and
\* QSOMNG.DAT or none of them.
C6_AllOrNothing ==
  (Ended /\ Len(Succeeded) > 0) =>
    \/ \A f \in LogFiles : Exists(f)
    \/ \A f \in LogFiles : ~Exists(f)

\* C7: as long as no photo has been processed successfully there is no
\* QSOLOG directory and none of the three files; a run that ends with zero
\* successes has written none of them.
C7_NoOutputWithoutPhoto ==
  Len(Succeeded) = 0 => (~fs.QSOLOG /\ \A f \in LogFiles : ~Exists(f))

\* C7 witness: a directory batch has ended and every one of its photos failed
C7_Witness ==
  /\ IsDone
  /\ Len(log) >= 2
  /\ Len(Succeeded) = 0
  /\ ~fs.QSOLOG

\* C8: writedate appends exactly 6 bytes, for year, month, day, hour, minute
\* and second in this order, and each byte is the BCD packing of its field
\* modulo 100: both nibbles are decimal digits and read as a decimal number
\* they give the field modulo 100 (23 gives 0x23, 7 gives 0x07, 100 gives 0).
C8_WritedateBcd ==
  /\ fn = "writedate" =>
       /\ ret.exc = "none"
       /\ Len(ret.val) = Len(arg.stream) + 6
       /\ SubSeq(ret.val, 1, Len(arg.stream)) = arg.stream
       /\ \A z \in 1..6 :
            LET b == ret.val[Len(arg.stream) + z]
            IN  /\ b \div 16 \in 0..9
                /\ b % 16 \in 0..9
                /\ 10 * (b \div 16) + (b % 16) = arg.when[z] % 100
  /\ fn = "dec2hex" =>
       /\ ret.num \div 16 = (arg.val % 100) \div 10
       /\ ret.num % 16 = arg.val % 10
       /\ arg.val = 23 => ret.num = 35
       /\ arg.val = 7 => ret.num = 7
       /\ arg.val = 100 => ret.num = 0

\* C8 witness: writedate has written 28 July 2023, 23:59:07
C8_Witness ==
  /\ fn = "writedate"
  /\ arg.when = <<2023, 7, 28, 23, 59, 7>>
  /\ ret.val = arg.stream \o <<35, 7, 40, 35, 89, 7>>

\* The geotag of exif is absent or incomplete
GeotagIncomplete(exif) ==
  IF DOMAIN exif = {} THEN TRUE
  ELSE IF GPSInfo \notin DOMAIN exif THEN TRUE
  ELSE \E k \in 1..4 : k \notin DOMAIN exif[GPSInfo]

\* C9: when the image has no metadata, metadata without a geotag block, or a
\* geotag lacking any of latitude, latitude reference, longitude and
\* longitude reference, encodegps returns exactly 20 spaces and raises nothing.
C9_BlankGps ==
  (fn = "encodegps" /\ GeotagIncomplete(arg.exif)) =>
    /\ ret.exc = "none"
    /\ ret.val = [i \in 1..20 |-> 32]

\* C9 witness: a geotag that lacks only the longitude reference
C9_Witness ==
  /\ fn = "encodegps"
  /\ IF GPSInfo \in DOMAIN arg.exif
     THEN DOMAIN arg.exif[GPSInfo] = {1, 2, 4, 5}
     ELSE FALSE
  /\ ret.val = [i \in 1..20 |-> 32]

\* The capture time of exif is absent or does not parse
CaptureTimeUnusable(exif) ==
  IF DOMAIN exif = {} THEN TRUE
  ELSE IF DateTimeOriginal \notin DOMAIN exif THEN TRUE
  ELSE strptime(exif[DateTimeOriginal]).exc # "none"

\* C10: get_date_taken returns the current time, and raises nothing, whenever
\* the capture time is absent or malformed.
C10_DateTakenFallsBack ==
  (fn = "get_date_taken" /\ CaptureTimeUnusable(arg.exif)) =>
    /\ ret.exc = "none"
    /\ ret.val = arg.now

====
